---- MODULE Spec2Model ----
(***************************************************************************)
(* Model of the DD1750 extraction-and-layout pipeline:                     *)
(*   src/dd1750_core.py  extract_items_from_pdf, generate_dd1750_from_pdf  *)
(*   src/app.py          the /generate route's call into the core          *)
(*                                                                         *)
(* Text is a sequence of one-character strings, so that the substring,    *)
(* strip, split and regular-expression steps of the code are computed.    *)
(* A table cell is an optional text: None or a (possibly empty) text.     *)
(*                                                                         *)
(* src/dd1750_core.py lines 99-103 carry two `else:` clauses at the same   *)
(* indentation.  The model reads the first one (99-100, which only prints)*)
(* as the else of `if not is_b_item:` and the second (101-103) as the     *)
(* else of `if lv_cell:`, which is what the two messages say.             *)
(***************************************************************************)
EXTENDS Integers, Sequences, FiniteSets, TLC

\* ------------------------------------------------------------------ bounds
MaxPages == 2
MaxStartPage == 2
MaxTemplatePages == 2
MaxFullPages == 2

\* ------------------------------------------------------- program constants
ROWS_PER_PAGE == 18

\* ------------------------------------------------------------ characters
LowerSeq == <<"a","b","c","d","e","f","g","h","i","j","k","l","m",
              "n","o","p","q","r","s","t","u","v","w","x","y","z">>
UpperSeq == <<"A","B","C","D","E","F","G","H","I","J","K","L","M",
              "N","O","P","Q","R","S","T","U","V","W","X","Y","Z">>
Digits == <<"0","1","2","3","4","5","6","7","8","9">>

InSeq(c, s) == \E i \in 1..Len(s) : s[i] = c
IndexIn(c, s) == CHOOSE i \in 1..Len(s) : s[i] = c

IsSpace(c) == c \in {" ", "\n", "\t"}
IsDigit(c) == InSeq(c, Digits)
IsWordChar(c) == IsDigit(c) \/ InSeq(c, LowerSeq) \/ InSeq(c, UpperSeq) \/ c = "_"
DigitVal(c) == IndexIn(c, Digits) - 1
UpperChar(c) == IF InSeq(c, LowerSeq) THEN UpperSeq[IndexIn(c, LowerSeq)] ELSE c

\* ------------------------------------------------------ string operations
\* str.upper()
Upper(s) == [i \in 1..Len(s) |-> UpperChar(s[i])]

\* s[a-1:b] of Python, 1-based inclusive here; empty when a > b
Slice(s, a, b) == IF a > b THEN <<>> ELSE SubSeq(s, a, b)

\* s[:n]
Prefix(s, n) == Slice(s, 1, IF n < Len(s) THEN n ELSE Len(s))

\* `sub in s`
Contains(s, sub) ==
    \E p \in 1..(Len(s) - Len(sub) + 1) : SubSeq(s, p, p + Len(sub) - 1) = sub

\* str.strip()
Strip(s) ==
    LET keep == {i \in 1..Len(s) : ~IsSpace(s[i])}
    IN IF keep = {} THEN <<>>
       ELSE LET lo == CHOOSE i \in keep : \A j \in keep : i <= j
                hi == CHOOSE i \in keep : \A j \in keep : i >= j
            IN SubSeq(s, lo, hi)

\* position of the first occurrence of character c in s, 0 when absent
FirstPos(s, c) ==
    IF \E i \in 1..Len(s) : s[i] = c
    THEN CHOOSE i \in 1..Len(s) : s[i] = c /\ \A j \in 1..(i-1) : s[j] # c
    ELSE 0

\* s.split(c)[0]
BeforeFirst(s, c) == IF FirstPos(s, c) = 0 THEN s ELSE Slice(s, 1, FirstPos(s, c) - 1)

\* s.split(c)[1], defined when c occurs in s
SecondPiece(s, c) ==
    BeforeFirst(Slice(s, FirstPos(s, c) + 1, Len(s)), c)

\* re.sub(r'\s+', ' ', s)
RECURSIVE CollapseSpaces(_)
CollapseSpaces(s) ==
    IF s = <<>> THEN <<>>
    ELSE IF IsSpace(Head(s))
         THEN LET rest == CollapseSpaces(Tail(s))
              IN IF Len(s) > 1 /\ IsSpace(s[2]) THEN rest ELSE <<" ">> \o rest
         ELSE <<Head(s)>> \o CollapseSpaces(Tail(s))

\* the trailing codes of re.sub(r'\s+(WTY|ARC|CIIC|UI|SCMC|EA|AY|9K|9G)$', ...)
TrailingCodes == { <<"W","T","Y">>, <<"A","R","C">>, <<"C","I","I","C">>,
                   <<"U","I">>, <<"S","C","M","C">>, <<"E","A">>, <<"A","Y">>,
                   <<"9","K">>, <<"9","G">> }

\* length of the whitespace run that ends at position p of s
RECURSIVE SpaceRunBack(_, _)
SpaceRunBack(s, p) ==
    IF p >= 1 /\ IsSpace(s[p]) THEN 1 + SpaceRunBack(s, p - 1) ELSE 0

\* re.sub(r'\s+(codes)$', '', s, flags=re.IGNORECASE): the leftmost match
\* is removed; with leftmost-first matching that is the longest code
\* suffix preceded by whitespace, together with that whole whitespace run
StripTrailingCode(s) ==
    LET cands == {c \in TrailingCodes :
                    /\ Len(s) > Len(c)
                    /\ Upper(SubSeq(s, Len(s) - Len(c) + 1, Len(s))) = c
                    /\ IsSpace(s[Len(s) - Len(c)])}
    IN IF cands = {} THEN s
       ELSE LET c == CHOOSE x \in cands : \A y \in cands : Len(x) >= Len(y)
                e == Len(s) - Len(c)
            IN Slice(s, 1, e - SpaceRunBack(s, e))

\* re.search(r'(\d+)', s): the first maximal run of digits, <<>> when none
FirstDigitRun(s) ==
    LET ds == {i \in 1..Len(s) : IsDigit(s[i])}
    IN IF ds = {} THEN <<>>
       ELSE LET lo == CHOOSE i \in ds : \A j \in ds : i <= j
                hi == CHOOSE i \in lo..Len(s) :
                        /\ \A j \in lo..i : IsDigit(s[j])
                        /\ (i = Len(s) \/ ~IsDigit(s[i + 1]))
            IN SubSeq(s, lo, hi)

\* int(digits)
RECURSIVE ToInt(_)
ToInt(ds) == IF ds = <<>> THEN 0
             ELSE 10 * ToInt(SubSeq(ds, 1, Len(ds) - 1)) + DigitVal(ds[Len(ds)])

\* re.search(r'\b(\d{9})\b', s): the first run of exactly nine digits with
\* a word boundary on both sides, <<>> when none
NineDigitToken(s) ==
    LET ok(p) == /\ p + 8 <= Len(s)
                 /\ \A j \in p..(p + 8) : IsDigit(s[j])
                 /\ (p = 1 \/ ~IsWordChar(s[p - 1]))
                 /\ (p + 8 = Len(s) \/ ~IsWordChar(s[p + 9]))
        ps == {p \in 1..Len(s) : ok(p)}
    IN IF ps = {} THEN <<>>
       ELSE LET p == CHOOSE x \in ps : \A y \in ps : x <= y
            IN SubSeq(s, p, p + 8)

\* ------------------------------------------------------------------ cells
None == [some |-> FALSE, text |-> <<>>]
Txt(s) == [some |-> TRUE, text |-> s]
\* Python truthiness of an optional text cell
Truthy(cell) == cell.some /\ cell.text # <<>>

\* BomItem (dataclass, line_no / description / nsn / qty)
BomItem(line_no, description, nsn, qty) ==
    [line_no |-> line_no, description |-> description, nsn |-> nsn, qty |-> qty]

\* ------------------------------------------------- column role resolution
\* the elif chain of the header loop: the role one header cell is given
HeaderRole(cell) ==
    IF ~Truthy(cell) THEN "none"
    ELSE LET text == Upper(cell.text)
         IN IF Contains(text, <<"L","V">>) \/ Contains(text, <<"L","E","V","E","L">>)
              THEN "lv"
            ELSE IF \/ Contains(text, <<"D","E","S","C">>)
                    \/ Contains(text, <<"N","O","M","E","N","C","L","A","T","U","R","E">>)
                    \/ Contains(text, <<"P","A","R","T"," ","N","O",".">>)
              THEN "desc"
            ELSE IF Contains(text, <<"M","A","T","E","R","I","A","L">>)
              THEN "mat"
            ELSE IF Contains(text, <<"A","U","T","H">>) /\ Contains(text, <<"Q","T","Y">>)
              THEN "auth"
            ELSE IF Contains(text, <<"O","H">>) /\ Contains(text, <<"Q","T","Y">>)
              THEN "auth"
            ELSE "none"

\* the index (0-based, -1 when none) the loop leaves in a role's variable:
\* every matching cell overwrites it, so the last one stays
LastIndexWithRole(header, role) ==
    LET hits == {i \in 1..Len(header) : HeaderRole(header[i]) = role}
    IN IF hits = {} THEN -1
       ELSE (CHOOSE i \in hits : \A j \in hits : i >= j) - 1

\* lv_idx, desc_idx, mat_idx, auth_idx after the header loop
ResolveColumns(header) ==
    [lv_idx   |-> LastIndexWithRole(header, "lv"),
     desc_idx |-> LastIndexWithRole(header, "desc"),
     mat_idx  |-> LastIndexWithRole(header, "mat"),
     auth_idx |-> LastIndexWithRole(header, "auth")]

\* oh_qty_idx of the fallback loop that runs when auth_idx = -1
OhQtyIndex(header) ==
    LET hits == {i \in 1..Len(header) :
                   /\ Truthy(header[i])
                   /\ Contains(Upper(header[i].text), <<"O","H">>)
                   /\ Contains(Upper(header[i].text), <<"Q","T","Y">>)}
    IN IF hits = {} THEN -1
       ELSE (CHOOSE i \in hits : \A j \in hits : i >= j) - 1

\* ------------------------------------------------------ row interpretation
\* `not any(cell for cell in row if cell)`
RowIsEmpty(row) == \A i \in 1..Len(row) : ~Truthy(row[i])

\* row[idx] if idx < len(row) else None   (idx is 0-based)
GuardedCell(row, idx) == IF idx < Len(row) THEN row[idx + 1] ELSE None

\* is_b_item for a truthy level cell
IsBItem(lv_cell) ==
    LET lv_text == Strip(lv_cell.text)
    IN lv_text # <<>> /\ (Contains(Upper(lv_text), <<"B">>) \/ lv_text = <<>>)

\* the level check as a whole: the cell must be truthy and a B item
LevelCheck(row, lv_idx) ==
    LET lv_cell == GuardedCell(row, lv_idx)
    IN IF Truthy(lv_cell) THEN (IF IsBItem(lv_cell) THEN "ok" ELSE "not_b")
       ELSE "no_lv"

\* the description of a row, <<>> when the cell is absent or cleans to nothing
Description(row, desc_idx) ==
    LET desc_cell == GuardedCell(row, desc_idx)
    IN IF ~Truthy(desc_cell) THEN <<>>
       ELSE LET text == Strip(desc_cell.text)
                d1 == IF FirstPos(text, "\n") # 0
                      THEN Strip(SecondPiece(text, "\n"))
                      ELSE Strip(text)
                d2 == IF FirstPos(d1, "(") # 0 THEN Strip(BeforeFirst(d1, "(")) ELSE d1
                d3 == StripTrailingCode(d2)
            IN Strip(CollapseSpaces(d3))

\* row[idx] without a length guard raises IndexError when idx >= len(row)
IndexError(row, idx) == idx >= Len(row)

\* nsn of a row whose material cell can be read
Nsn(row, mat_idx) ==
    IF mat_idx > -1 /\ Truthy(row[mat_idx + 1])
    THEN NineDigitToken(row[mat_idx + 1].text)
    ELSE <<>>

\* qty read from one quantity cell
QtyOfCell(qty_cell) ==
    IF Truthy(qty_cell) /\ FirstDigitRun(qty_cell.text) # <<>>
    THEN ToInt(FirstDigitRun(qty_cell.text))
    ELSE 1

\* the column the quantity is read from (0-based, -1 when none)
QtyColumn(header, auth_idx) == IF auth_idx > -1 THEN auth_idx ELSE OhQtyIndex(header)

\* qty of a row whose quantity cell can be read
Qty(row, header, auth_idx) ==
    IF QtyColumn(header, auth_idx) > -1
    THEN QtyOfCell(row[QtyColumn(header, auth_idx) + 1])
    ELSE 1

\* what the body of the row loop does with one data row:
\*   "empty" / "not_b" / "no_lv" / "no_desc": the row is skipped,
\*   "raise": an unguarded row[...] raised IndexError,
\*   "added": an item is appended
RowOutcome(row, header, cols) ==
    IF RowIsEmpty(row) THEN "empty"
    ELSE IF LevelCheck(row, cols.lv_idx) # "ok" THEN LevelCheck(row, cols.lv_idx)
    ELSE IF Description(row, cols.desc_idx) = <<>> THEN "no_desc"
    ELSE IF cols.mat_idx > -1 /\ IndexError(row, cols.mat_idx) THEN "raise"
    ELSE IF QtyColumn(header, cols.auth_idx) > -1
            /\ IndexError(row, QtyColumn(header, cols.auth_idx)) THEN "raise"
    ELSE "added"

\* RowItem with the item numbered from 0: line_no = len(items)
RowItem_ZeroBased(row, header, cols, n) ==
    BomItem(n,
            Prefix(Description(row, cols.desc_idx), 100),
            Nsn(row, cols.mat_idx),
            Qty(row, header, cols.auth_idx))

\* the item appended for a row whose outcome is "added"
RowItem(row, header, cols, n) ==
    BomItem(n + 1,
            Prefix(Description(row, cols.desc_idx), 100),
            Nsn(row, cols.mat_idx),
            Qty(row, header, cols.auth_idx))

\* ----------------------------------------------------------------- inputs
\* header cells
HC_LV    == Txt(<<"L","V">>)
HC_DESC  == Txt(<<"D","e","s","c">>)
HC_MAT   == Txt(<<"M","A","T","E","R","I","A","L">>)
HC_AUTH  == Txt(<<"A","U","T","H"," ","Q","T","Y">>)
HC_OH    == Txt(<<"O","H"," ","Q","T","Y">>)
HC_LV_OH == Txt(<<"L","V","/","O","H"," ","Q","T","Y">>)

H_STD     == <<HC_LV, HC_DESC, HC_MAT, HC_AUTH>>
H_AUTH_OH == <<HC_LV, HC_DESC, HC_AUTH, HC_OH>>
H_OH_AUTH == <<HC_LV, HC_DESC, HC_OH, HC_AUTH>>
H_NOQTY   == <<HC_LV, HC_DESC, HC_MAT, None>>
H_LV_OH   == <<HC_LV_OH, HC_DESC, HC_MAT, None>>
H_NODESC  == <<HC_LV, None, HC_MAT, HC_AUTH>>
Headers   == {H_STD, H_AUTH_OH, H_OH_AUTH, H_NOQTY, H_LV_OH, H_NODESC}

\* data cells
C_B    == Txt(<<"B">>)
C_NUT  == Txt(<<"N","U","T">>)
C_NSN  == Txt(<<"0","1","2","3","4","5","6","7","8">>)
C_TWO  == Txt(<<"2">>)
LvCells   == {None, Txt(<<" ">>), C_B, Txt(<<" ","B","9">>), Txt(<<"A","B">>),
              Txt(<<"A">>)}
DescCells == {None, C_NUT,
              Txt(<<"H","\n","B","O","L","T"," ","(","M",")"," ","E","A">>),
              Txt(<<"P","I","N"," "," ","e","a">>),
              Txt(<<"(","X",")">>)}
NumCells  == {None, Txt(<<>>), Txt(<<"0">>), Txt(<<"-","5">>), Txt(<<"x">>), C_TWO,
              C_NSN, Txt(<<"x","0","1","2","3","4","5","6","7","8">>)}

R_OK    == <<C_B, C_NUT, C_NSN, C_TWO>>
R_BLANK == <<None, Txt(<<>>), None, None>>
R_NOT_B == <<Txt(<<"A">>), C_NUT, C_NSN, C_TWO>>
\* rows shorter than the header
ShortRows == {<<C_B>>, <<C_B, C_NUT>>, <<C_B, C_NUT, C_NSN>>}

\* one data row: the level and description cells vary, or the two number
\* cells vary, around the well-formed row
Rows == {<<lv, d, C_NSN, C_TWO>> : lv \in LvCells, d \in DescCells}
        \cup {<<C_B, C_NUT, a, b>> : a \in NumCells, b \in NumCells}
        \cup ShortRows \cup {R_BLANK}

\* tables as page.extract_tables() returns them: rows of optional text
T_OK2     == <<H_STD, R_OK, R_OK>>
T_NODESC  == <<H_NODESC, R_OK>>
T_HDRONLY == <<H_STD>>
T_MIXED   == <<H_AUTH_OH, R_BLANK, R_NOT_B, R_OK>>
T_SHORT   == <<H_STD, R_OK, <<C_B, C_NUT>>, R_OK>>

\* pages: the tables of one page, in reported order
PagesSmall == { <<>>, <<T_OK2>>, <<T_NODESC, T_MIXED>>, <<T_HDRONLY, T_SHORT>> }

\* all sequences over S of length 1..n
RECURSIVE SeqsUpTo(_, _)
SeqsUpTo(S, n) ==
    IF n = 0 THEN {}
    ELSE {<<x>> : x \in S}
         \cup {Append(q, x) : q \in SeqsUpTo(S, n - 1), x \in S}

\* a table of n well-formed rows
LongTable(n) == <<H_STD>> \o [i \in 1..n |-> R_OK]
LongRowCounts == {k * ROWS_PER_PAGE + d : k \in 1..MaxFullPages, d \in {0, 1}}

\* the pages of the BOM documents considered
BomPages ==
    {<< << <<h, r>> >> >> : h \in Headers, r \in Rows}
    \cup SeqsUpTo(PagesSmall, MaxPages)
    \cup {<< <<LongTable(n)>> >> : n \in LongRowCounts}

\* a BOM document: its pages, and whether pdfplumber fails on it
\* ("open": pdfplumber.open raises, "read": page.extract_tables raises)
BomDocs ==
    {[fault |-> "none", pages |-> ps] : ps \in BomPages}
    \cup {[fault |-> f, pages |-> << <<T_OK2>> >>] : f \in {"open", "read"}}

\* a template document: unreadable, or readable with npages pages
TemplateDocs ==
    {[readable |-> FALSE, npages |-> 0]}
    \cup {[readable |-> TRUE, npages |-> n] : n \in 0..MaxTemplatePages}

\* the three ways in: extract_items_from_pdf(path, start_page) called
\* directly, generate_dd1750_from_pdf(bom, template, out) called directly,
\* and the /generate route of app.py
Entries == {"extract", "generate", "app"}

\* ------------------------------------------------------------------ state
VARIABLES
    entry,           \* which entry point this run calls
    bom,             \* the BOM document
    template,        \* the template document
    arg_start_page,  \* the start page the caller supplies
    pc,              \* position in the code
    start_page,      \* extract_items_from_pdf's parameter
    pageIdx,         \* 1-based position of the page loop in bom.pages
    tableIdx,        \* 1-based position of the table loop in the page
    rowIdx,          \* 1-based position of the row loop in the table
    cols,            \* lv_idx, desc_idx, mat_idx, auth_idx of the table
    items,           \* the list extract_items_from_pdf builds
    ret,             \* the list extract_items_from_pdf returned
    lastLog,         \* the last DEBUG line about a table or a row
    errlog,          \* the CRITICAL ERROR lines written to stderr
    total_pages,     \* generate_dd1750_from_pdf's total_pages
    page_num,        \* its page loop counter
    tplPages,        \* the page objects of `template`: layers merged so far
    writer,          \* the pages added to `writer`
    outFile,         \* the file at out_path
    outcome,         \* how the entry call ended
    response         \* what the /generate route answers

vars == <<entry, bom, template, arg_start_page, pc, start_page, pageIdx,
          tableIdx, rowIdx, cols, items, ret, lastLog, errlog, total_pages,
          page_num, tplPages, writer, outFile, outcome, response>>

inputVars  == <<entry, bom, template, arg_start_page>>
cursorVars == <<pageIdx, tableIdx, rowIdx, cols>>
genVars    == <<total_pages, page_num, tplPages, writer, outFile>>

NoCols == [lv_idx |-> -1, desc_idx |-> -1, mat_idx |-> -1, auth_idx |-> -1]
NoFile == [state |-> "absent", pages |-> <<>>]
Pending == [kind |-> "pending", count |-> 0]
Returned(n) == [kind |-> "returned", count |-> n]
Raised == [kind |-> "raised", count |-> 0]

Init ==
    /\ entry \in Entries
    /\ bom \in BomDocs
    /\ template \in IF entry = "generate" THEN TemplateDocs
                    ELSE {[readable |-> TRUE, npages |-> 1]}
    /\ arg_start_page \in IF entry = "generate" THEN {0} ELSE 0..MaxStartPage
    /\ pc = "call"
    /\ start_page = 0
    /\ pageIdx = 0 /\ tableIdx = 0 /\ rowIdx = 0
    /\ cols = NoCols
    /\ items = <<>>
    /\ ret = <<>>
    /\ lastLog = "none"
    /\ errlog = {}
    /\ total_pages = 0 /\ page_num = 0
    /\ tplPages = <<>>
    /\ writer = <<>>
    /\ outFile = NoFile
    /\ outcome = Pending
    /\ response = "none"

\* ------------------------------------------------------------ entry points
\* def generate_dd1750_from_pdf(bom_path, template_path, out_path)
GenerateParams == {"bom_path", "template_path", "out_path"}
\* the keyword arguments of the call in the /generate route
AppCallKeywords == {"bom_path", "template_path", "out_path", "start_page"}

\* the rest of the route once the call has ended: the except clause for a
\* call that raised, else the existence and count checks
AppResponse(callOutcome, file) ==
    IF callOutcome.kind = "raised" THEN "error: exception"
    ELSE IF file.state = "absent" THEN "error: PDF could not be generated"
    ELSE IF callOutcome.count = 0 THEN "error: No items found in BOM"
    ELSE "send_file"

\* extract_items_from_pdf(pdf_path, start_page) called directly
ExtractCall ==
    /\ pc = "call" /\ entry = "extract"
    /\ start_page' = arg_start_page
    /\ pc' = "open"
    /\ UNCHANGED <<inputVars, cursorVars, items, ret, lastLog, errlog, genVars,
                   outcome, response>>

\* generate_dd1750_from_pdf(bom_path, template_path, out_path) called
\* directly: items = extract_items_from_pdf(bom_path), start_page defaulted
CoreGenerate ==
    /\ pc = "call" /\ entry = "generate"
    /\ start_page' = 0
    /\ pc' = "open"
    /\ UNCHANGED <<inputVars, cursorVars, items, ret, lastLog, errlog, genVars,
                   outcome, response>>

\* the /generate route: the call passes start_page=, which the function
\* does not take; Python raises TypeError before the body runs and the
\* route's except clause answers
AppGenerate ==
    /\ pc = "call" /\ entry = "app"
    /\ ~(AppCallKeywords \subseteq GenerateParams)
    /\ outcome' = Raised
    /\ response' = AppResponse(Raised, outFile)
    /\ pc' = "done"
    /\ UNCHANGED <<inputVars, start_page, cursorVars, items, ret, lastLog,
                   errlog, genVars>>

\* ------------------------------------------------------------- extraction
\* where control goes when extract_items_from_pdf returns
AfterExtract == IF entry = "extract" THEN "done" ELSE "gen"
OutcomeAfterExtract(list) == IF entry = "extract" THEN Returned(Len(list)) ELSE outcome

\* pdfplumber.open(pdf_path) and the slice pdf.pages[start_page:]
OpenDoc ==
    /\ pc = "open"
    /\ IF bom.fault = "open"
       THEN pc' = "except" /\ UNCHANGED pageIdx
       ELSE pc' = "page" /\ pageIdx' = start_page + 1
    /\ UNCHANGED <<inputVars, start_page, tableIdx, rowIdx, cols, items, ret,
                   lastLog, errlog, genVars, outcome, response>>

\* one step of the page loop: page.extract_tables(), or the loop's end
NextPage ==
    /\ pc = "page"
    /\ IF pageIdx > Len(bom.pages)
       THEN pc' = "return" /\ UNCHANGED tableIdx
       ELSE IF bom.fault = "read"
            THEN pc' = "except" /\ UNCHANGED tableIdx
            ELSE pc' = "table" /\ tableIdx' = 1
    /\ UNCHANGED <<inputVars, start_page, pageIdx, rowIdx, cols, items, ret,
                   lastLog, errlog, genVars, outcome, response>>

CurPage  == bom.pages[pageIdx]
CurTable == CurPage[tableIdx]

\* one step of the table loop: the length check, the header loop and the
\* check that the level and description columns were found
NextTable ==
    /\ pc = "table"
    /\ IF tableIdx > Len(CurPage)
       THEN /\ pc' = "page" /\ pageIdx' = pageIdx + 1
            /\ UNCHANGED <<tableIdx, rowIdx, cols, lastLog>>
       ELSE IF Len(CurTable) < 2
       THEN /\ lastLog' = "table too short"
            /\ tableIdx' = tableIdx + 1
            /\ UNCHANGED <<pc, pageIdx, rowIdx, cols>>
       ELSE /\ cols' = ResolveColumns(CurTable[1])
            /\ IF cols'.lv_idx = -1 \/ cols'.desc_idx = -1
               THEN /\ lastLog' = "table no LV or DESC"
                    /\ tableIdx' = tableIdx + 1
                    /\ UNCHANGED <<pc, pageIdx, rowIdx>>
               ELSE /\ lastLog' = "table columns"
                    /\ rowIdx' = 2
                    /\ pc' = "row"
                    /\ UNCHANGED <<pageIdx, tableIdx>>
    /\ UNCHANGED <<inputVars, start_page, items, ret, errlog, genVars, outcome,
                   response>>

CurRow == CurTable[rowIdx]

\* one step of the row loop: the whole loop body for one data row
ProcessRow ==
    /\ pc = "row"
    /\ IF rowIdx > Len(CurTable)
       THEN /\ pc' = "table" /\ tableIdx' = tableIdx + 1
            /\ UNCHANGED <<rowIdx, items, lastLog>>
       ELSE LET o == RowOutcome(CurRow, CurTable[1], cols)
            IN /\ lastLog' = o
               /\ IF o = "raise"
                  THEN pc' = "except" /\ UNCHANGED <<rowIdx, items>>
                  ELSE /\ rowIdx' = rowIdx + 1
                       /\ UNCHANGED pc
                       /\ items' = IF o = "added"
                                   THEN Append(items, RowItem(CurRow, CurTable[1],
                                                              cols, Len(items)))
                                   ELSE items
               /\ UNCHANGED tableIdx
    /\ UNCHANGED <<inputVars, start_page, pageIdx, cols, ret, errlog, genVars,
                   outcome, response>>

\* ExtractExcept with the exception printed and raised again
ExtractExcept_Propagates ==
    /\ pc = "except"
    /\ errlog' = errlog \cup {"extraction"}
    /\ outcome' = Raised
    /\ pc' = "done"
    /\ UNCHANGED <<inputVars, start_page, cursorVars, items, ret, lastLog, genVars,
                   response>>

\* except Exception: print the error, return []
ExtractExcept ==
    /\ pc = "except"
    /\ errlog' = errlog \cup {"extraction"}
    /\ ret' = <<>>
    /\ outcome' = OutcomeAfterExtract(ret')
    /\ pc' = AfterExtract
    /\ UNCHANGED <<inputVars, start_page, cursorVars, items, lastLog, genVars,
                   response>>

\* return items
ExtractReturn ==
    /\ pc = "return"
    /\ ret' = items
    /\ outcome' = OutcomeAfterExtract(ret')
    /\ pc' = AfterExtract
    /\ UNCHANGED <<inputVars, start_page, cursorVars, items, lastLog, errlog,
                   genVars, response>>

\* ------------------------------------------------------------- generation
\* math.ceil(n / d) for a non-negative n
Ceil(n, d) == (n + d - 1) \div d

\* what the overlay draws in one grid row for one item
DrawnRow(item) ==
    [line_no     |-> item.line_no,
     description |-> Prefix(item.description, 50),
     nsn_line    |-> IF item.nsn # <<>>
                     THEN <<"N","S","N",":"," ">> \o item.nsn ELSE <<>>,
     uoi         |-> "EA",
     init_qty    |-> item.qty,
     spares      |-> 0,
     total_qty   |-> item.qty]

\* page_items = items[start_idx:end_idx] for output page page_no (0-based)
PageItems(list, page_no) ==
    LET start_idx == page_no * ROWS_PER_PAGE
        end_idx   == IF (page_no + 1) * ROWS_PER_PAGE < Len(list)
                     THEN (page_no + 1) * ROWS_PER_PAGE ELSE Len(list)
    IN Slice(list, start_idx + 1, end_idx)

\* the overlay canvas of one output page: grid row i holds page_items[i]
Overlay(list, page_no) ==
    [i \in 1..Len(PageItems(list, page_no)) |-> DrawnRow(PageItems(list, page_no)[i])]

\* the index of the template page an output page is merged onto
TemplatePageIndex(page_no, npages) == IF page_no < npages THEN page_no ELSE 0

\* page.merge_page(overlay.pages[0]) draws the overlay onto the page object
\* itself: the layers of template page idx (0-based) after the merge
MergePage(pages, idx, overlay) == [pages EXCEPT ![idx + 1] = Append(@, overlay)]

\* a page as the writer holds it: writer.add_page copies the page object
\* as it is at that moment
PageCopy(pages, idx) == [tpl |-> idx, layers |-> pages[idx + 1]]

\* reader.pages[0] of a freshly opened template
CleanFirstPage == [tpl |-> 0, layers |-> <<>>]

\* with open(out_path, 'wb') as f: w.write(f) -- the ways it can end:
\* the document is written, open() raises (the file is left as it was), or
\* write() raises (the file exists, truncated or partly written)
WriteResults == {"ok", "open fails", "write fails"}
FileAfter(file, pages, w) ==
    IF w = "ok" THEN [state |-> "written", pages |-> pages]
    ELSE IF w = "write fails" THEN [state |-> "partial", pages |-> <<>>]
    ELSE file

\* if not items: the template's first page alone is written, return (.., 0);
\* nothing here is inside a try
GenEmpty ==
    /\ pc = "gen" /\ ret = <<>>
    /\ IF ~template.readable \/ template.npages = 0
       THEN outcome' = Raised /\ UNCHANGED outFile
       ELSE \E w \in WriteResults :
              /\ outFile' = FileAfter(outFile, <<CleanFirstPage>>, w)
              /\ outcome' = IF w = "ok" THEN Returned(0) ELSE Raised
    /\ pc' = "done"
    /\ UNCHANGED <<inputVars, start_page, cursorVars, items, ret, lastLog, errlog,
                   total_pages, page_num, tplPages, writer, response>>

\* total_pages, writer = PdfWriter(), template = PdfReader(template_path)
GenBegin ==
    /\ pc = "gen" /\ ret # <<>>
    /\ total_pages' = Ceil(Len(ret), ROWS_PER_PAGE)
    /\ writer' = <<>>
    /\ IF ~template.readable
       THEN /\ outcome' = Raised /\ pc' = "done"
            /\ UNCHANGED <<page_num, tplPages>>
       ELSE /\ tplPages' = [k \in 1..template.npages |-> <<>>]
            /\ page_num' = 0
            /\ pc' = "render"
            /\ UNCHANGED outcome
    /\ UNCHANGED <<inputVars, start_page, cursorVars, items, ret, lastLog, errlog,
                   outFile, response>>

\* one iteration of the page loop: draw the overlay, pick the template
\* page, merge the overlay onto it, add it to the writer
RenderPage ==
    /\ pc = "render"
    /\ IF template.npages = 0
       THEN /\ outcome' = Raised /\ pc' = "done"
            /\ UNCHANGED <<page_num, tplPages, writer>>
       ELSE LET idx == TemplatePageIndex(page_num, template.npages)
            IN /\ tplPages' = MergePage(tplPages, idx, Overlay(ret, page_num))
               /\ writer' = Append(writer, PageCopy(tplPages', idx))
               /\ page_num' = page_num + 1
               /\ pc' = IF page_num + 1 < total_pages THEN "render" ELSE "write"
               /\ UNCHANGED outcome
    /\ UNCHANGED <<inputVars, start_page, cursorVars, items, ret, lastLog, errlog,
                   total_pages, outFile, response>>

\* try: write the writer's pages to out_path; except: print the error
WriteOutput ==
    /\ pc = "write"
    /\ \E w \in WriteResults :
         /\ outFile' = FileAfter(outFile, writer, w)
         /\ IF w = "ok"
            THEN pc' = "gen_return" /\ UNCHANGED errlog
            ELSE pc' = "fallback" /\ errlog' = errlog \cup {"writing"}
    /\ UNCHANGED <<inputVars, start_page, cursorVars, items, ret, lastLog,
                   total_pages, page_num, tplPages, writer, outcome, response>>

\* the fallback inside the except clause: reopen the template, write its
\* first page alone; a failure here is passed over
WriteFallback ==
    /\ pc = "fallback"
    /\ \E w \in WriteResults :
         outFile' = FileAfter(outFile, <<CleanFirstPage>>, w)
    /\ pc' = "gen_return"
    /\ UNCHANGED <<inputVars, start_page, cursorVars, items, ret, lastLog, errlog,
                   total_pages, page_num, tplPages, writer, outcome, response>>

\* return out_path, len(items)
GenReturn ==
    /\ pc = "gen_return"
    /\ outcome' = Returned(Len(ret))
    /\ pc' = "done"
    /\ UNCHANGED <<inputVars, start_page, cursorVars, items, ret, lastLog, errlog,
                   genVars, response>>

\* ---------------------------------------------------------- specification
Next ==
    \/ ExtractCall
    \/ CoreGenerate
    \/ AppGenerate
    \/ OpenDoc
    \/ NextPage
    \/ NextTable
    \/ ProcessRow
    \/ ExtractExcept
    \/ ExtractReturn
    \/ GenEmpty
    \/ GenBegin
    \/ RenderPage
    \/ WriteOutput
    \/ WriteFallback
    \/ GenReturn

Spec == Init /\ [][Next]_vars

\* ------------------------------------------------- extraction as a function
\* The list a whole run of the loops yields, folded over the document.
\* With lenient = FALSE an unguarded read of a short row raises, as in the
\* row loop; with lenient = TRUE the missing cell is read as None.
LenientItem(row, header, cs, n) ==
    LET qcol == QtyColumn(header, cs.auth_idx)
        mat  == GuardedCell(row, cs.mat_idx)
    IN BomItem(n + 1,
               Prefix(Description(row, cs.desc_idx), 100),
               IF cs.mat_idx > -1 /\ Truthy(mat) THEN NineDigitToken(mat.text) ELSE <<>>,
               IF qcol > -1 THEN QtyOfCell(GuardedCell(row, qcol)) ELSE 1)

RECURSIVE FoldRows(_, _, _, _, _)
FoldRows(table, r, cs, acc, lenient) ==
    IF acc.raised \/ r > Len(table) THEN acc
    ELSE LET o == RowOutcome(table[r], table[1], cs)
         IN FoldRows(table, r + 1, cs,
              IF o = "added"
                THEN [acc EXCEPT !.list = Append(@, RowItem(table[r], table[1], cs, Len(@)))]
              ELSE IF o = "raise"
                THEN IF lenient
                     THEN [acc EXCEPT !.list = Append(@, LenientItem(table[r], table[1], cs, Len(@)))]
                     ELSE [acc EXCEPT !.raised = TRUE]
              ELSE acc,
              lenient)

RECURSIVE FoldTables(_, _, _, _)
FoldTables(page, t, acc, lenient) ==
    IF acc.raised \/ t > Len(page) THEN acc
    ELSE LET table == page[t]
             cs == ResolveColumns(table[1])
         IN FoldTables(page, t + 1,
              IF Len(table) < 2 \/ cs.lv_idx = -1 \/ cs.desc_idx = -1 THEN acc
              ELSE FoldRows(table, 2, cs, acc, lenient),
              lenient)

RECURSIVE FoldPages(_, _, _, _)
FoldPages(pages, p, acc, lenient) ==
    IF acc.raised \/ p > Len(pages) THEN acc
    ELSE FoldPages(pages, p + 1, FoldTables(pages[p], 1, acc, lenient), lenient)

ExtractedList(doc, sp, lenient) ==
    IF doc.fault = "open" \/ (doc.fault = "read" /\ sp < Len(doc.pages)) THEN <<>>
    ELSE LET r == FoldPages(doc.pages, sp + 1, [raised |-> FALSE, list |-> <<>>], lenient)
         IN IF r.raised THEN <<>> ELSE r.list

\* ----------------------------------------------------------------- claims

\* C1: the list extract_items returns, and the list while it is being
\* built, is numbered 1, 2, 3, ...: the item at position i has line_no i,
\* whatever rows and tables were skipped on the way.
C1_LineNumbering ==
    /\ \A i \in 1..Len(items) : items[i].line_no = i
    /\ \A i \in 1..Len(ret) : ret[i].line_no = i

\* a run over two pages that skipped a table, a blank row and a non-B row
\* and returned three items
C1_Witness ==
    /\ entry = "extract" /\ pc = "done" /\ start_page = 0
    /\ bom.pages = << <<T_NODESC, T_MIXED>>, <<T_OK2>> >>
    /\ Len(ret) = 3 /\ ret[3].line_no = 3

\* C2: when generate_form returns with N items, the document it left at
\* the output path has ceil(N/18) pages for N > 0 and one page for N = 0,
\* on every path, the one after a failed write included.  (A run that
\* leaves no document at all is the matter of C6.)
C2_PaginationLaw ==
    (entry = "generate" /\ pc = "done" /\ outcome.kind = "returned"
       /\ outFile.state = "written")
    => Len(outFile.pages) = IF outcome.count > 0
                            THEN Ceil(outcome.count, ROWS_PER_PAGE) ELSE 1

\* C3: every output page k carries the overlay of items 18k .. min(18(k+1),N)-1
\* and nothing else, at most 18 rows, also when the template's first page
\* is reused for the excess pages.
C3_PageCarriesOwnItems ==
    \A k \in 1..Len(writer) :
        /\ writer[k].layers = <<Overlay(ret, k - 1)>>
        /\ Len(Overlay(ret, k - 1)) <= ROWS_PER_PAGE
        /\ \A i \in 1..Len(Overlay(ret, k - 1)) :
              Overlay(ret, k - 1)[i].line_no = (k - 1) * ROWS_PER_PAGE + i

\* a failure while the document is opened or read
ExtractionFailed == bom.fault = "open"
                    \/ (bom.fault = "read" /\ start_page < Len(bom.pages))
                    \/ lastLog = "raise"

\* C4: extract_items never raises; it returns a list, and the empty list
\* when start_page is beyond the last page or a failure occurred while the
\* document was opened or read.
C4_ExtractNeverRaises ==
    entry = "extract" =>
       /\ outcome.kind # "raised"
       /\ pc = "done" =>
            /\ outcome.kind = "returned"
            /\ (start_page >= Len(bom.pages) \/ ExtractionFailed) => ret = <<>>

\* a run that had gathered items when a row raised, and returned []
C4_Witness ==
    /\ entry = "extract" /\ pc = "done"
    /\ lastLog = "raise" /\ items # <<>>
    /\ ret = <<>> /\ outcome.kind = "returned"

\* C5: a generate_form call that passes start_page completes normally and
\* places exactly the items of pages start_page .. last.
C5_StartPageHonoured ==
    (entry = "app" /\ pc = "done")
    => /\ outcome.kind = "returned"
       /\ ret = ExtractedList(bom, arg_start_page, FALSE)
       /\ outcome.count = Len(ExtractedList(bom, arg_start_page, FALSE))

\* C6: after a failed write of the output document generate_form does not
\* return a normal (output, item_count) result.
C6_WriteFailureReported ==
    (entry = "generate" /\ pc = "done" /\ "writing" \in errlog)
    => outcome.kind # "returned"

\* C7: every emitted item has qty >= 1.
C7_QtyPositive ==
    /\ \A i \in 1..Len(items) : items[i].qty >= 1
    /\ \A i \in 1..Len(ret) : ret[i].qty >= 1

\* the level cell is non-empty and its trimmed text begins with "B"
BeginsWithB(cell) ==
    /\ Truthy(cell)
    /\ Strip(cell.text) # <<>>
    /\ Strip(cell.text)[1] = "B"

\* C8: a non-empty data row passes the level-code check if and only if its
\* level cell is non-empty and the trimmed text begins with "B".  (The row
\* just handled is the one before rowIdx; lastLog says what became of it.)
C8_LevelPrefixTest ==
    (pc = "row" /\ rowIdx > 2 /\ ~RowIsEmpty(CurTable[rowIdx - 1]))
    => ((lastLog \notin {"not_b", "no_lv"})
          <=> BeginsWithB(GuardedCell(CurTable[rowIdx - 1], cols.lv_idx)))

\* C9: a row that passes the level and description checks is never lost to
\* a missing, empty or numberless material or quantity cell: the returned
\* list is the one obtained when a missing cell is read as absent.
C9_RowDefaulting ==
    (entry = "extract" /\ pc = "done" /\ bom.fault = "none")
    => ret = ExtractedList(bom, start_page, TRUE)

IsAuthQtyCell(cell) ==
    /\ Truthy(cell)
    /\ Contains(Upper(cell.text), <<"A","U","T","H">>)
    /\ Contains(Upper(cell.text), <<"Q","T","Y">>)
IsOhQtyCell(cell) ==
    /\ Truthy(cell)
    /\ Contains(Upper(cell.text), <<"O","H">>)
    /\ Contains(Upper(cell.text), <<"Q","T","Y">>)
    /\ ~Contains(Upper(cell.text), <<"A","U","T","H">>)

\* C10: in a table whose header has both an OH QTY and an AUTH QTY column
\* the quantity is read from the OH QTY column, whichever comes first.
C10_OhQtyPreferred ==
    (/\ pc = "row"
     /\ \E i \in 1..Len(CurTable[1]) : IsOhQtyCell(CurTable[1][i])
     /\ \E j \in 1..Len(CurTable[1]) : IsAuthQtyCell(CurTable[1][j]))
    => /\ cols.auth_idx > -1
       /\ IsOhQtyCell(CurTable[1][cols.auth_idx + 1])
       /\ (rowIdx > 2 /\ lastLog = "added")
            => items[Len(items)].qty
                 = QtyOfCell(CurTable[rowIdx - 1][cols.auth_idx + 1])

====
